---------------------------- MODULE Spec2Model ----------------------------
(***************************************************************************)
(* The insect-identification job queue and its worker pool.                *)
(*                                                                         *)
(* src/src/services/firebase.services.ts creates the BullMQ queue          *)
(* 'insect-identification' (attempts 3, exponential backoff 2000 ms,       *)
(* removeOnComplete / removeOnFail), adds jobs to it and projects a job's  *)
(* status.  src/src/workers/insect.worker.ts creates the BullMQ worker     *)
(* (concurrency 5, limiter 10 per 1000 ms) and its processor.              *)
(* src/src/workers/worker.ts is the worker process: SIGTERM and SIGINT     *)
(* exit it at once, without closing the worker.                            *)
(*                                                                         *)
(* The broker is the BullMQ 5 library driven by those options.  Its        *)
(* job hash fields keep their library names: attemptsMade (atm, raised     *)
(* when an attempt finishes), attemptsStarted (ats, raised when a job is   *)
(* moved to active), stalledCounter (stc), failedReason, returnvalue,      *)
(* processedOn, finishedOn.  A job's lock is the token of the claim that   *)
(* holds it.  Timers (the limiter key's TTL, a delayed job's timestamp, a  *)
(* lock's TTL) expire by actions of their own; LimiterSpec adds a clock    *)
(* that ties the limiter key's expiry to elapsed time, BackoffSpec one     *)
(* that ties a delayed job's return to wait to elapsed time.               *)
(*                                                                         *)
(* src/src/routes/insect.routes.ts is the API in front of the queue        *)
(* (ApiSpec): POST /identify calls addInsectIdentificationJob, GET         *)
(* /status/:jobId calls getJobStatus, over the ioredis connection of       *)
(* src/src/config/redis.config.ts.                                         *)
(***************************************************************************)
EXTENDS Integers, Sequences, FiniteSets, TLC

(***************************************************************************)
(* Bounds of the model.                                                    *)
(***************************************************************************)
\* jobs enqueued under Spec, PartitionSpec and FairSpec
MaxJobs == 1
\* jobs enqueued under LoadSpec: more than one pool's concurrency
LoadJobs == 3
\* jobs enqueued under LimiterSpec
LimJobs == 4
\* worker processes (pool instances) sharing the queue
MaxWorkers == 2
\* worker process deaths (crash, SIGTERM, SIGINT) in one behaviour
MaxCrashes == 2
\* clock ticks in one limiter window (limiter.duration, 1000 ms)
limiterTicks == 2
\* limiter.max is 10 in the source; the model grants limiterMax claims per
\* window so that a window fills with LimJobs jobs
limiterMax == 2
\* concurrency is 5 in the source; the model gives a worker this many slots so
\* that a pool fills with LoadJobs jobs
concurrency == 2
\* longest byte sequence the codec is applied to
MaxLen == 3
\* addInsectIdentificationJob calls in one behaviour of ApiSpec
MaxCalls == 2
\* milliseconds in one tick of the delay clock of BackoffSpec
TickMs == 1000
\* jobs enqueued under KeepSpec: more than keepCount
KeepJobs == 3
\* removeOnComplete.count is 100 in the source; the model keeps keepCount
\* completed jobs so that KeepJobs jobs exceed it
keepCount == 2
\* seconds in one tick of the retention clock of KeepSpec
KeepTick == 43200

(***************************************************************************)
(* Program constants.                                                      *)
(***************************************************************************)
\* defaultJobOptions.attempts
attempts == 3
\* Worker option maxStalledCount: not set by the source, the library's default
maxStalledCount == 1
\* defaultJobOptions.backoff.delay, in ms
backoffDelay == 2000
\* defaultJobOptions.removeOnComplete.age, in seconds
removeOnCompleteAge == 3600
\* defaultJobOptions.removeOnFail.age, in seconds
removeOnFailAge == 86400

Max2(a, b) == IF a >= b THEN a ELSE b

NumJobs == Max2(MaxJobs, Max2(LoadJobs, LimJobs))

JobIds == 1..NumJobs

Workers == 1..MaxWorkers

VARIABLES
    job,        \* the queue: job id -> the job's hash and state in the broker
    exec,       \* the processor invocations in progress, on every worker
    alive,      \* worker -> whether its process runs
    limiter,    \* the limiter key: claims counted in the current window
    crashes,    \* worker process deaths so far
    ttl,        \* LimiterSpec: ticks until the limiter key expires
    recent,     \* LimiterSpec: ages, in ticks, of the claims of the last window
    cpc,        \* CodecSpec: position of the payload on its way to the worker
    cIn,        \* CodecSpec: imageBuffer passed to addInsectIdentificationJob
    cWire,      \* CodecSpec: job.data.imageBuffer as the worker receives it
    cOut,       \* CodecSpec: actualBuffer handed to identifyInsect
    up,         \* ApiSpec: whether the broker (Redis) is reachable
    call,       \* ApiSpec: the addInsectIdentificationJob call in progress
    reply,      \* ApiSpec: the response of the last request the API answered
    issued,     \* ApiSpec: the jobIds addInsectIdentificationJob returned, in order
    poll,       \* ApiSpec: the getJobStatus call in progress
    delayLeft,  \* BackoffSpec: job id -> ms until its delay has passed
    waited,     \* BackoffSpec: job id -> ms since its last attempt failed
    payload,    \* PipelineSpec: job id -> job.data.imageBuffer as the worker receives it
    effects,    \* PipelineSpec: job id -> what identifyInsect did for it so far
    log,        \* PipelineSpec: job id -> what its current attempt did, in order
    age,        \* KeepSpec: job id -> seconds since the job finished
    finished    \* KeepSpec: the ids of the finished jobs, oldest first

queueVars == <<job, exec, alive, limiter, crashes>>
clockVars == <<ttl, recent>>
codecVars == <<cpc, cIn, cWire, cOut>>
apiVars == <<up, call, reply, issued, poll>>
delayVars == <<delayLeft, waited>>
pipeVars == <<payload, effects, log>>
keepVars == <<age, finished>>
sideVars == <<pipeVars, keepVars>>
vars == <<job, exec, alive, limiter, crashes, ttl, recent, cpc, cIn, cWire, cOut,
          up, call, reply, issued, poll, delayLeft, waited,
          payload, effects, log, age, finished>>


(***************************************************************************)
(* The queue: addInsectIdentificationJob and the job's hash.               *)
(***************************************************************************)
JobStates == {"none", "waiting", "active", "delayed", "completed", "failed"}

\* an id under which no job was added
NoJob ==
    [state |-> "none", attemptsMade |-> 0, attemptsStarted |-> 0,
     stalledCounter |-> 0, progress |-> 0, returnvalue |-> "none",
     failedReason |-> "none", processedOn |-> FALSE, finishedOn |-> FALSE,
     lock |-> 0, failures |-> 0]

\* queue.add('identify-insect', data, {jobId}): the job enters the wait list
NewJob == [NoJob EXCEPT !.state = "waiting"]

addInsectIdentificationJob(j) ==
    /\ job[j].state = "none"
    /\ job' = [job EXCEPT ![j] = NewJob]
    /\ UNCHANGED <<exec, alive, limiter, crashes>>

\* getJobStatus: null for a missing job, else the projection of the job
getJobStatus(j) ==
    IF job[j].state = "none"
    THEN [found |-> FALSE]
    ELSE [found |-> TRUE,
          id |-> j,
          state |-> job[j].state,
          progress |-> job[j].progress,
          result |-> job[j].returnvalue,
          failedReason |-> job[j].failedReason,
          processedAt |-> job[j].processedOn,
          finishedAt |-> job[j].finishedOn]

(***************************************************************************)
(* The worker: claiming a job (the library's moveToActive under the        *)
(* worker's options).                                                      *)
(***************************************************************************)
execOf(w) == {e \in exec : e.w = w}

\* concurrency: 5: a worker fetches a job only while fewer than 5 are in process
HasFreeSlotOffByOne(w) == Cardinality(execOf(w)) <= concurrency

HasFreeSlot(w) == Cardinality(execOf(w)) < concurrency

\* limiter {max, duration}: no job is fetched while the window's count is at max
RateLimitedOffByOne == limiter > limiterMax

RateLimited == limiter >= limiterMax

ClaimJob(w, j) ==
    /\ alive[w]
    /\ job[j].state = "waiting"
    /\ HasFreeSlot(w)
    /\ ~RateLimited
    /\ limiter' = limiter + 1
    /\ job' = [job EXCEPT ![j] =
                 [@ EXCEPT !.state = "active",
                           !.attemptsStarted = @ + 1,
                           !.processedOn = TRUE,
                           !.lock = job[j].attemptsStarted + 1]]
    /\ exec' = exec \cup {[w |-> w, j |-> j, tok |-> job[j].attemptsStarted + 1,
                           pc |-> "progress10"]}
    /\ UNCHANGED <<alive, crashes>>

\* the limiter key's TTL ends: the next claim opens a new window
LimiterExpire ==
    /\ limiter > 0
    /\ limiter' = 0
    /\ UNCHANGED <<job, exec, alive, crashes>>

(***************************************************************************)
(* The end of an attempt (the library's moveToFinished, moveToDelayed).    *)
(***************************************************************************)
\* attempts: 3: a failed attempt is retried while fewer than 3 are made
ShouldRetryOffByOne(r) == r.attemptsMade + 1 <= attempts

ShouldRetry(r) == r.attemptsMade + 1 < attempts

\* the job after its processor threw: delayed for a retry, or failed
moveToFailed(r) ==
    IF ShouldRetry(r)
    THEN [r EXCEPT !.state = "delayed",
                   !.attemptsMade = @ + 1,
                   !.failedReason = "error",
                   !.lock = 0]
    ELSE [r EXCEPT !.state = "failed",
                   !.attemptsMade = @ + 1,
                   !.failedReason = "error",
                   !.finishedOn = TRUE,
                   !.lock = 0]

\* a completion that leaves attemptsMade as it was
moveToCompletedNoCount(r) ==
    [r EXCEPT !.state = "completed",
              !.returnvalue = "result",
              !.finishedOn = TRUE,
              !.lock = 0]

\* the job after its processor returned
moveToCompleted(r) ==
    [r EXCEPT !.state = "completed",
              !.attemptsMade = @ + 1,
              !.returnvalue = "result",
              !.finishedOn = TRUE,
              !.lock = 0]

\* a worker that finishes a job without looking at the lock
HoldsLockNoCheck(e) == job[e.j].state # "none"

\* the attempt still owns the job: the lock holds its token
HoldsLock(e) == job[e.j].state = "active" /\ job[e.j].lock = e.tok

\* backoff {exponential, 2000}: the delay of a delayed job has passed
DelayElapsed(j) ==
    /\ job[j].state = "delayed"
    /\ job' = [job EXCEPT ![j] = [@ EXCEPT !.state = "waiting"]]
    /\ UNCHANGED <<exec, alive, limiter, crashes>>

(***************************************************************************)
(* The processor of insectIdentificationWorker, one action per await.      *)
(***************************************************************************)
\* job.updateProgress(value): writes the hash, whoever holds the lock; it
\* rejects, and the processor with it, when the job is no longer in the queue
updateProgress(e, value, next) ==
    /\ IF job[e.j].state = "none"
       THEN /\ job' = job
            /\ exec' = exec \ {e}
       ELSE /\ job' = [job EXCEPT ![e.j] = [@ EXCEPT !.progress = value]]
            /\ exec' = (exec \ {e}) \cup {[e EXCEPT !.pc = next]}
    /\ UNCHANGED <<alive, limiter, crashes>>

\* await job.updateProgress(10), then the buffer is rebuilt
Progress10(e) ==
    /\ e.pc = "progress10"
    /\ updateProgress(e, 10, "progress30")

\* await job.updateProgress(30)
Progress30(e) ==
    /\ e.pc = "progress30"
    /\ updateProgress(e, 30, "identify")

\* await insectService.identifyInsect(...) returns the identification
IdentifyReturns(e) ==
    /\ e.pc = "identify"
    /\ exec' = (exec \ {e}) \cup {[e EXCEPT !.pc = "progress100"]}
    /\ UNCHANGED <<job, alive, limiter, crashes>>

\* identifyInsect rethrows an error of any of its steps: the processor
\* rejects, and the worker moves the job to failed under the attempt's token
IdentifyThrows(e) ==
    /\ e.pc = "identify"
    /\ exec' = exec \ {e}
    /\ job' = [job EXCEPT ![e.j] =
                 IF HoldsLock(e)
                 THEN [moveToFailed(@) EXCEPT !.failures = @ + 1]
                 ELSE IF @.state = "none" THEN @ ELSE [@ EXCEPT !.failures = @ + 1]]
    /\ UNCHANGED <<alive, limiter, crashes>>

\* await job.updateProgress(100)
Progress100(e) ==
    /\ e.pc = "progress100"
    /\ updateProgress(e, 100, "return")

\* return result: the worker moves the job to completed under the token
ProcessorReturns(e) ==
    /\ e.pc = "return"
    /\ exec' = exec \ {e}
    /\ job' = [job EXCEPT ![e.j] = IF HoldsLock(e) THEN moveToCompleted(@) ELSE @]
    /\ UNCHANGED <<alive, limiter, crashes>>

(***************************************************************************)
(* The worker process and the library's stalled-job check.                 *)
(***************************************************************************)
\* the process ends (a crash, or process.exit(0) on SIGTERM / SIGINT): its
\* processor invocations end with it, the locks they hold stay until they expire
Crash(w) ==
    /\ alive[w]
    /\ crashes < MaxCrashes
    /\ alive' = [alive EXCEPT ![w] = FALSE]
    /\ exec' = exec \ execOf(w)
    /\ crashes' = crashes + 1
    /\ UNCHANGED <<job, limiter>>

\* npm run worker: the worker process is started again
Start(w) ==
    /\ ~alive[w]
    /\ alive' = [alive EXCEPT ![w] = TRUE]
    /\ UNCHANGED <<job, exec, limiter, crashes>>

\* a lock's TTL (lockDuration) ends without a renewal: the holder is dead, or
\* alive and cut off from the broker for that long
LockExpire(j) ==
    /\ job[j].state = "active"
    /\ job[j].lock # 0
    /\ job' = [job EXCEPT ![j] = [@ EXCEPT !.lock = 0]]
    /\ UNCHANGED <<exec, alive, limiter, crashes>>

\* a stalled job is failed the first time it stalls
moveStalledNoRecovery(r) ==
    [r EXCEPT !.state = "failed",
              !.stalledCounter = @ + 1,
              !.failedReason = "stalled",
              !.finishedOn = TRUE]

\* an active job without a lock: back to wait, or failed once it has stalled
\* more than maxStalledCount times
moveStalled(r) ==
    IF r.stalledCounter + 1 > maxStalledCount
    THEN [r EXCEPT !.state = "failed",
                   !.stalledCounter = @ + 1,
                   !.failedReason = "stalled",
                   !.finishedOn = TRUE]
    ELSE [r EXCEPT !.state = "waiting", !.stalledCounter = @ + 1]

\* the stalled-job check of a live worker
StalledCheck(w, j) ==
    /\ alive[w]
    /\ job[j].state = "active"
    /\ job[j].lock = 0
    /\ job' = [job EXCEPT ![j] = moveStalled(@)]
    /\ UNCHANGED <<exec, alive, limiter, crashes>>

(***************************************************************************)
(* The limiter's clock (LimiterSpec).  The limiter key is set to expire    *)
(* limiter.duration after the claim that opens a window.                   *)
(***************************************************************************)
Ages == 0..(limiterTicks - 1)

\* a claim at this tick: it opens a window when the key is absent
ClockOnClaim ==
    /\ ttl' = IF limiter = 0 THEN limiterTicks ELSE ttl
    /\ recent' = [recent EXCEPT ![0] = @ + 1]

\* one tick passes; the key expires at the tick that ends its TTL
Tick ==
    /\ ttl' = IF ttl > 0 THEN ttl - 1 ELSE 0
    /\ recent' = [a \in Ages |-> IF a = 0 THEN 0 ELSE recent[a - 1]]
    /\ IF ttl = 1 THEN LimiterExpire ELSE UNCHANGED queueVars
    /\ UNCHANGED <<codecVars, apiVars, delayVars, sideVars>>

\* claims granted in the last limiter.duration, whatever the window
RollingClaims == LET Sum[a \in Ages] == recent[a] + (IF a = 0 THEN 0 ELSE Sum[a - 1])
                 IN  Sum[limiterTicks - 1]

(***************************************************************************)
(* Specifications.                                                         *)
(***************************************************************************)
Init ==
    /\ job = [j \in JobIds |-> NoJob]
    /\ exec = {}
    /\ alive = [w \in Workers |-> TRUE]
    /\ limiter = 0
    /\ crashes = 0
    /\ ttl = 0
    /\ recent = [a \in Ages |-> 0]
    /\ cpc = "idle"
    /\ cIn = <<>>
    /\ cWire = [form |-> "none"]
    /\ cOut = <<>>
    /\ up = TRUE
    /\ call = [st |-> "idle"]
    /\ reply = [op |-> "none"]
    /\ issued = <<>>
    /\ poll = [st |-> "idle"]
    /\ delayLeft = [j \in JobIds |-> 0]
    /\ waited = [j \in JobIds |-> 0]
    /\ payload = [j \in JobIds |-> [form |-> "none"]]
    /\ effects = [j \in JobIds |-> [gemini |-> 0, images |-> 0, docs |-> 0]]
    /\ log = [j \in JobIds |-> <<>>]
    /\ age = [j \in JobIds |-> 0]
    /\ finished = <<>>

\* the steps of a processor invocation that ends without an error
ProcessorStep(e) ==
    \/ Progress10(e)
    \/ Progress30(e)
    \/ IdentifyReturns(e)
    \/ Progress100(e)
    \/ ProcessorReturns(e)

\* the attempt that holds the job's lock still runs
HolderRuns(j) == \E e \in exec : e.j = j /\ e.tok = job[j].lock

\* a lock left by a dead worker process expires
OrphanLockExpire(j) ==
    /\ ~HolderRuns(j)
    /\ LockExpire(j)

\* a step of the queue, which leaves the limiter's clock and the codec alone
Queue(A) ==
    /\ A
    /\ UNCHANGED clockVars
    /\ UNCHANGED codecVars
    /\ UNCHANGED apiVars
    /\ UNCHANGED delayVars
    /\ UNCHANGED sideVars

\* the queue and its workers: attempts fail and are retried, worker processes
\* die and are started again, timers expire at any time
Next ==
    \/ \E j \in 1..MaxJobs : Queue(addInsectIdentificationJob(j))
    \/ \E w \in Workers, j \in JobIds : Queue(ClaimJob(w, j))
    \/ \E e \in exec : Queue(ProcessorStep(e))
    \/ \E e \in exec : Queue(IdentifyThrows(e))
    \/ \E j \in JobIds : Queue(DelayElapsed(j))
    \/ Queue(LimiterExpire)
    \/ \E w \in Workers : Queue(Crash(w))
    \/ \E w \in Workers : Queue(Start(w))
    \/ \E j \in JobIds : Queue(OrphanLockExpire(j))
    \/ \E w \in Workers, j \in JobIds : Queue(StalledCheck(w, j))

Spec == Init /\ [][Next]_vars

\* a lock expires while its holder runs: a worker cut off from the broker for
\* lockDuration does not renew it
HeldLockExpire(j) ==
    /\ HolderRuns(j)
    /\ LockExpire(j)

\* as Next, and a running attempt may lose its lock
PartitionNext ==
    \/ Next
    \/ \E j \in JobIds : Queue(HeldLockExpire(j))

PartitionSpec == Init /\ [][PartitionNext]_vars

\* a pool under load: more jobs than slots, every attempt succeeds
LoadNext ==
    \/ \E j \in 1..LoadJobs : Queue(addInsectIdentificationJob(j))
    \/ \E w \in Workers, j \in JobIds : Queue(ClaimJob(w, j))
    \/ \E e \in exec : Queue(ProcessorStep(e))
    \/ Queue(LimiterExpire)

LoadSpec == Init /\ [][LoadNext]_vars

\* the limiter under a clock: jobs are added and claimed while time passes, and
\* the key expires with the tick that ends its TTL.  The limiter is consulted
\* when a job is claimed and at no other step, so the claimed jobs' processors
\* are left where they start
LimiterNext ==
    \/ \E j \in 1..LimJobs : Queue(addInsectIdentificationJob(j))
    \/ \E w \in Workers, j \in JobIds :
          ClaimJob(w, j) /\ ClockOnClaim /\ UNCHANGED <<codecVars, apiVars, delayVars, sideVars>>
    \/ Tick

LimiterSpec == Init /\ [][LimiterNext]_vars

(***************************************************************************)
(* The payload's way from addInsectIdentificationJob to identifyInsect     *)
(* (CodecSpec).  A byte sequence is a sequence of numbers in 0..255.       *)
(***************************************************************************)
Bytes == {0, 1, 127, 128, 255}

ByteSeqs == UNION {[1..n -> Bytes] : n \in 0..MaxLen}

\* queue.add serialises job data as JSON, and JSON.stringify turns a Buffer
\* into {type: 'Buffer', data: [its bytes]}
jsonOfBuffer(b) == [form |-> "object", type |-> "Buffer", data |-> b]

\* Buffer.from(array): one byte per entry, the entry taken modulo 256
bufferFromArrayLow7(a) == [i \in 1..Len(a) |-> a[i] % 128]

bufferFromArray(a) == [i \in 1..Len(a) |-> a[i] % 256]

\* Buffer.from(buffer): a copy of the bytes
bufferFromBuffer(b) == [i \in 1..Len(b) |-> b[i]]

\* the processor's rebuilding of actualBuffer from job.data.imageBuffer
actualBuffer(imageBuffer) ==
    IF imageBuffer.form = "object" /\ imageBuffer.type = "Buffer"
    THEN bufferFromArray(imageBuffer.data)
    ELSE bufferFromBuffer(imageBuffer.bytes)

\* the job data reaches the worker through the broker, as JSON
CodecAddJob ==
    /\ cpc = "idle"
    /\ cpc' = "queued"
    /\ cWire' = jsonOfBuffer(cIn)
    /\ UNCHANGED <<cIn, cOut>>

\* the job data reaches the processor with its Buffer intact
CodecAddNative ==
    /\ cpc = "idle"
    /\ cpc' = "queued"
    /\ cWire' = [form |-> "buffer", bytes |-> cIn]
    /\ UNCHANGED <<cIn, cOut>>

\* job data whose imageBuffer is no Buffer: a string (given here by its
\* bytes), an object that is no {type: 'Buffer', data: [...]}, or nothing
ForeignForms == {"string", "plain", "absent"}

foreignPayload(form, b) ==
    IF form = "string" THEN [form |-> "string", bytes |-> b] ELSE [form |-> form]

\* a job is added, by this or another producer, with such an imageBuffer
CodecAddForeign(form) ==
    /\ cpc = "idle"
    /\ cpc' = "queued"
    /\ cWire' = foreignPayload(form, cIn)
    /\ UNCHANGED <<cIn, cOut>>

\* a Buffer.from that throws for a missing value only
decodeThrowsAbsentOnly(imageBuffer) == imageBuffer.form = "absent"

\* Buffer.from(value) throws a TypeError for undefined, null and an object
\* that is neither array-like nor a serialised Buffer; it encodes a string
decodeThrows(imageBuffer) == imageBuffer.form \in {"plain", "absent"}

\* the processor rebuilds the buffer and hands it to identifyInsect, or throws
CodecProcess ==
    /\ cpc = "queued"
    /\ IF decodeThrows(cWire)
       THEN /\ cpc' = "failed"
            /\ cOut' = cOut
       ELSE /\ cpc' = "identify"
            /\ cOut' = actualBuffer(cWire)
    /\ UNCHANGED <<cIn, cWire>>

CodecInit ==
    /\ job = [j \in JobIds |-> NoJob]
    /\ exec = {}
    /\ alive = [w \in Workers |-> TRUE]
    /\ limiter = 0
    /\ crashes = 0
    /\ ttl = 0
    /\ recent = [a \in Ages |-> 0]
    /\ cpc = "idle"
    /\ cIn \in ByteSeqs
    /\ cWire = [form |-> "none"]
    /\ cOut = <<>>
    /\ up = TRUE
    /\ call = [st |-> "idle"]
    /\ reply = [op |-> "none"]
    /\ issued = <<>>
    /\ poll = [st |-> "idle"]
    /\ delayLeft = [j \in JobIds |-> 0]
    /\ waited = [j \in JobIds |-> 0]
    /\ payload = [j \in JobIds |-> [form |-> "none"]]
    /\ effects = [j \in JobIds |-> [gemini |-> 0, images |-> 0, docs |-> 0]]
    /\ log = [j \in JobIds |-> <<>>]
    /\ age = [j \in JobIds |-> 0]
    /\ finished = <<>>

\* a step of the payload, which leaves the queue alone
Codec(A) ==
    /\ A
    /\ UNCHANGED queueVars
    /\ UNCHANGED clockVars
    /\ UNCHANGED apiVars
    /\ UNCHANGED delayVars
    /\ UNCHANGED sideVars

CodecNext ==
    \/ Codec(CodecAddJob)
    \/ Codec(CodecAddNative)
    \/ Codec(CodecProcess)

CodecSpec == CodecInit /\ [][CodecNext]_vars

\* as CodecNext, and the job data may hold any imageBuffer
DecodeNext ==
    \/ CodecNext
    \/ \E form \in ForeignForms : Codec(CodecAddForeign(form))

DecodeSpec == CodecInit /\ [][DecodeNext]_vars

(***************************************************************************)
(* The queue under fair scheduling (FairSpec): some worker process always  *)
(* runs, every await of a processor ends, every timer runs out, and a      *)
(* worker that can fetch a waiting job does.                               *)
(***************************************************************************)
\* a worker process dies while another runs
CrashLeavingOne(w) ==
    /\ \E v \in Workers : v # w /\ alive[v]
    /\ Crash(w)

FairNext ==
    \/ \E j \in 1..MaxJobs : Queue(addInsectIdentificationJob(j))
    \/ \E w \in Workers, j \in JobIds : Queue(ClaimJob(w, j))
    \/ \E e \in exec : Queue(ProcessorStep(e))
    \/ \E e \in exec : Queue(IdentifyThrows(e))
    \/ \E j \in JobIds : Queue(DelayElapsed(j))
    \/ Queue(LimiterExpire)
    \/ \E w \in Workers : Queue(CrashLeavingOne(w))
    \/ \E w \in Workers : Queue(Start(w))
    \/ \E j \in JobIds : Queue(OrphanLockExpire(j))
    \/ \E w \in Workers, j \in JobIds : Queue(StalledCheck(w, j))

\* an await of some processor invocation ends, with a result or an error
SomeProcessorStep == \E e \in exec : Queue(ProcessorStep(e) \/ IdentifyThrows(e))

Fairness ==
    /\ WF_vars(SomeProcessorStep)
    /\ WF_vars(Queue(LimiterExpire))
    /\ \A j \in JobIds :
         /\ WF_vars(Queue(DelayElapsed(j)))
         /\ WF_vars(Queue(OrphanLockExpire(j)))
         /\ WF_vars(\E w \in Workers : Queue(StalledCheck(w, j)))
         /\ SF_vars(\E w \in Workers : Queue(ClaimJob(w, j)))

FairSpec == Init /\ [][FairNext]_vars /\ Fairness

(***************************************************************************)
(* The queue when the classification service may not answer (HangSpec).    *)
(* identifyWithGemini awaits model.generateContent without a timeout, and  *)
(* neither identifyInsect nor the processor puts one around it.            *)
(***************************************************************************)
\* model.generateContent never settles: the processor stays at its await, and
\* its live worker keeps renewing the job's lock
IdentifyHangs(e) ==
    /\ e.pc = "identify"
    /\ exec' = (exec \ {e}) \cup {[e EXCEPT !.pc = "hung"]}
    /\ UNCHANGED <<job, alive, limiter, crashes>>

HangNext ==
    \/ FairNext
    \/ \E e \in exec : Queue(IdentifyHangs(e))

HangSpec == Init /\ [][HangNext]_vars /\ Fairness

(***************************************************************************)
(* The API in front of the queue (ApiSpec): POST /identify enqueues a job  *)
(* under an id made from Date.now() and Math.random(), GET /status/:jobId  *)
(* projects a job.  The connection is an ioredis client with               *)
(* maxRetriesPerRequest: null and the offline queue left on: a command     *)
(* issued while Redis is unreachable waits until it is reachable again.    *)
(* Completed and failed jobs are removed by removeOnComplete/removeOnFail. *)
(* One client is modelled: it sends a request after the response to its    *)
(* last one, while the workers and the broker run on.                      *)
(***************************************************************************)
\* the values Date.now() takes while jobs are enqueued: the calls of a
\* behaviour fall into the same millisecond
Millis == {0}

\* the values Math.random().toString(36).substring(7) takes
Suffixes == {1, 2}

\* `insect-${Date.now()}-${Math.random().toString(36).substring(7)}`: one id
\* for each pair of a millisecond and a suffix
jobId(ms, rnd) == ms * Cardinality(Suffixes) + rnd

\* Redis becomes unreachable
BrokerDown ==
    /\ up
    /\ up' = FALSE
    /\ UNCHANGED <<call, reply, issued, poll>>
    /\ UNCHANGED queueVars

\* Redis is reachable again
BrokerUp ==
    /\ ~up
    /\ up' = TRUE
    /\ UNCHANGED <<call, reply, issued, poll>>
    /\ UNCHANGED queueVars

\* addInsectIdentificationJob is called: the jobId is formed, then queue.add
\* is awaited
EnqueueCall(ms, rnd) ==
    /\ call.st = "idle"
    /\ poll.st = "idle"
    /\ Len(issued) < MaxCalls
    /\ call' = [st |-> "pending", id |-> jobId(ms, rnd), down |-> ~up]
    /\ reply' = [op |-> "none"]
    /\ UNCHANGED <<up, issued, poll>>
    /\ UNCHANGED queueVars

\* queue.add(name, data, {jobId}): a job is added under the id unless the
\* queue holds one; the call resolves with the job of that id either way
queueAdd(r) == IF r.state = "none" THEN NewJob ELSE r

\* queue.add resolves once Redis has run the command: addInsectIdentificationJob
\* returns job.id and the route answers 202 with the jobId
EnqueueReturns ==
    /\ call.st = "pending"
    /\ up
    /\ job' = [job EXCEPT ![call.id] = queueAdd(@)]
    /\ issued' = Append(issued, call.id)
    /\ reply' = [op |-> "enqueue", code |-> 202, id |-> call.id, down |-> call.down]
    /\ call' = [st |-> "idle"]
    /\ UNCHANGED <<up, poll, exec, alive, limiter, crashes>>

\* GET /status/:jobId: 404 when getJobStatus returns null, else 200
statusCode(s) == IF s.found THEN 200 ELSE 404

\* the fields of a job's hash that getJobStatus reads
hashOf(r) ==
    [progress |-> r.progress, returnvalue |-> r.returnvalue,
     failedReason |-> r.failedReason, processedOn |-> r.processedOn,
     finishedOn |-> r.finishedOn]

\* what getJobStatus returns for the job it loaded and the state it read
statusOf(j, hash, state) ==
    [found |-> TRUE,
     id |-> j,
     state |-> state,
     progress |-> hash.progress,
     result |-> hash.returnvalue,
     failedReason |-> hash.failedReason,
     processedAt |-> hash.processedOn,
     finishedAt |-> hash.finishedOn]

\* a getJob that hands on the hash of a missing job
getJobNoNullCheck(j) ==
    /\ poll.st = "idle"
    /\ call.st = "idle"
    /\ up
    /\ poll' = [st |-> "getState", id |-> j, hash |-> hashOf(job[j])]
    /\ reply' = [op |-> "none"]
    /\ UNCHANGED <<up, call, issued>>
    /\ UNCHANGED queueVars

\* getJobStatus, first await: queue.getJob(jobId) loads the job's hash; for a
\* missing job getJobStatus returns null and the route answers 404
getJob(j) ==
    /\ poll.st = "idle"
    /\ call.st = "idle"
    /\ up
    /\ IF job[j].state = "none"
       THEN /\ reply' = [op |-> "status", id |-> j,
                         code |-> statusCode([found |-> FALSE]),
                         body |-> [found |-> FALSE]]
            /\ poll' = poll
       ELSE /\ poll' = [st |-> "getState", id |-> j, hash |-> hashOf(job[j])]
            /\ reply' = [op |-> "none"]
    /\ UNCHANGED <<up, call, issued>>
    /\ UNCHANGED queueVars

\* job.getState() of a job that is in none of the queue's lists
unknownState(state) == IF state = "none" THEN "unknown" ELSE state

\* a state read that claims the job it reads
getStateTouching ==
    /\ poll.st = "getState"
    /\ up
    /\ reply' = [op |-> "status", id |-> poll.id, code |-> 200,
                 body |-> statusOf(poll.id, poll.hash, unknownState(job[poll.id].state))]
    /\ poll' = [st |-> "idle"]
    /\ job' = [job EXCEPT ![poll.id] = [@ EXCEPT !.attemptsStarted = @ + 1]]
    /\ UNCHANGED <<up, call, issued, exec, alive, limiter, crashes>>

\* getJobStatus, second await: job.getState() reads the state the job has by
\* now; the other fields are those of the hash loaded before; the route
\* answers 200 with the projection
getState ==
    /\ poll.st = "getState"
    /\ up
    /\ reply' = [op |-> "status", id |-> poll.id,
                 code |-> statusCode(statusOf(poll.id, poll.hash, "")),
                 body |-> statusOf(poll.id, poll.hash, unknownState(job[poll.id].state))]
    /\ poll' = [st |-> "idle"]
    /\ UNCHANGED <<up, call, issued>>
    /\ UNCHANGED queueVars

\* removeOnComplete {age, count}, removeOnFail {age}: a completed or failed job
\* past the age or the count is removed, hash and all, when a later job finishes
Retention(j) ==
    /\ job[j].state \in {"completed", "failed"}
    /\ job' = [job EXCEPT ![j] = NoJob]
    /\ UNCHANGED <<exec, alive, limiter, crashes>>

\* the worker process that serves the queue under ApiSpec and KeepSpec
ApiWorker == 1

\* a step of a worker or of the broker, which needs Redis reachable
Broker(A) ==
    /\ up
    /\ Queue(A)

\* a step of the API, which leaves the clocks and the codec alone
Api(A) ==
    /\ A
    /\ UNCHANGED clockVars
    /\ UNCHANGED codecVars
    /\ UNCHANGED delayVars
    /\ UNCHANGED sideVars

ApiNext ==
    \/ Api(BrokerDown)
    \/ Api(BrokerUp)
    \/ \E ms \in Millis, rnd \in Suffixes : Api(EnqueueCall(ms, rnd))
    \/ Api(EnqueueReturns)
    \/ \E j \in JobIds : Api(getJob(j))
    \/ Api(getState)
    \/ \E j \in JobIds : Broker(ClaimJob(ApiWorker, j))
    \/ \E e \in exec : Broker(ProcessorStep(e))
    \/ \E e \in exec : Broker(IdentifyThrows(e))
    \/ \E j \in JobIds : Broker(DelayElapsed(j))
    \/ Queue(LimiterExpire)
    \/ \E j \in JobIds : Broker(Retention(j))

ApiSpec == Init /\ [][ApiNext]_vars

(***************************************************************************)
(* The queue under a clock for the delays of retried jobs (BackoffSpec).   *)
(* A failed attempt that is retried puts the job into the delayed set with *)
(* the time at which it may run again; a worker moves it to wait once that *)
(* time has come.                                                          *)
(***************************************************************************)
\* backoff {type: 'fixed'}: the same delay after every failure
backoffFixed(attemptsMade) == backoffDelay

\* backoff {type: 'exponential', delay: 2000}: the delay after the failure
\* that makes attemptsMade attempts
backoff(attemptsMade) == 2^(attemptsMade - 1) * backoffDelay

\* the longest time the clock counts after a failure
WaitCap == backoff(attempts - 1) + TickMs

\* an attempt fails: a job that is retried is delayed by its backoff
IdentifyThrowsAt(e) ==
    /\ IdentifyThrows(e)
    /\ waited' = [waited EXCEPT ![e.j] = 0]
    /\ delayLeft' = [delayLeft EXCEPT ![e.j] =
                       IF job'[e.j].state = "delayed"
                       THEN backoff(job'[e.j].attemptsMade)
                       ELSE 0]

\* the delayed job's time has come: it is moved to wait
DelayElapsedAt(j) ==
    /\ delayLeft[j] = 0
    /\ DelayElapsed(j)
    /\ UNCHANGED delayVars

\* TickMs milliseconds pass
TickDelay ==
    /\ delayLeft' = [j \in JobIds |->
                       IF delayLeft[j] > TickMs THEN delayLeft[j] - TickMs ELSE 0]
    /\ waited' = [j \in JobIds |->
                    IF job[j].attemptsMade = 0 THEN 0
                    ELSE IF waited[j] + TickMs > WaitCap THEN WaitCap
                    ELSE waited[j] + TickMs]
    /\ UNCHANGED queueVars

\* a step under the delay clock, which leaves the other clocks alone
Timed(A) ==
    /\ A
    /\ UNCHANGED clockVars
    /\ UNCHANGED codecVars
    /\ UNCHANGED apiVars
    /\ UNCHANGED sideVars

BackoffNext ==
    \/ \E j \in 1..MaxJobs : Queue(addInsectIdentificationJob(j))
    \/ \E w \in Workers, j \in JobIds : Queue(ClaimJob(w, j))
    \/ \E e \in exec : Queue(ProcessorStep(e))
    \/ \E e \in exec : Timed(IdentifyThrowsAt(e))
    \/ \E j \in JobIds : Timed(DelayElapsedAt(j))
    \/ Queue(LimiterExpire)
    \/ Timed(TickDelay)

BackoffSpec == Init /\ [][BackoffNext]_vars

(***************************************************************************)
(* The queue with retention (RetentionSpec): as PartitionSpec, and jobs    *)
(* that are completed or failed are removed.                               *)
(***************************************************************************)
\* addInsectIdentificationJob returns an id it has not returned before
EnqueueFresh(j) ==
    /\ \A a \in 1..Len(issued) : issued[a] # j
    /\ addInsectIdentificationJob(j)
    /\ issued' = Append(issued, j)
    /\ UNCHANGED <<up, call, reply, poll>>

RetentionNext ==
    \/ \E j \in 1..MaxJobs : Api(EnqueueFresh(j))
    \/ \E w \in Workers, j \in JobIds : Queue(ClaimJob(w, j))
    \/ \E e \in exec : Queue(ProcessorStep(e))
    \/ \E e \in exec : Queue(IdentifyThrows(e))
    \/ \E j \in JobIds : Queue(DelayElapsed(j))
    \/ Queue(LimiterExpire)
    \/ \E w \in Workers : Queue(Crash(w))
    \/ \E w \in Workers : Queue(Start(w))
    \/ \E j \in JobIds : Queue(OrphanLockExpire(j))
    \/ \E j \in JobIds : Queue(HeldLockExpire(j))
    \/ \E w \in Workers, j \in JobIds : Queue(StalledCheck(w, j))
    \/ \E j \in JobIds : Queue(Retention(j))

RetentionSpec == Init /\ [][RetentionNext]_vars

(***************************************************************************)
(* The processor with identifyInsect unfolded (PipelineSpec): one action   *)
(* per await of insect.worker.ts and insect.service.ts, each of which may  *)
(* reject.  effects counts, per job, the calls of identifyWithGemini, the  *)
(* image objects saved to the bucket and the documents added to the        *)
(* collection 'insects'; log lists what the job's current attempt did.     *)
(***************************************************************************)
PayloadForms == {"object"} \cup ForeignForms

\* job.data.imageBuffer of a job added with an image of the given form
payloadOf(form) ==
    IF form = "object" THEN jsonOfBuffer(<<>>) ELSE foreignPayload(form, <<>>)

\* addInsectIdentificationJob, or another producer's queue.add
AddJob(j, form) ==
    /\ addInsectIdentificationJob(j)
    /\ payload' = [payload EXCEPT ![j] = payloadOf(form)]
    /\ UNCHANGED <<effects, log>>

Logged(j, event) == log' = [log EXCEPT ![j] = Append(@, event)]

\* a worker claims the job and calls the processor
StartAttempt(w, j) ==
    /\ ClaimJob(w, j)
    /\ log' = [log EXCEPT ![j] = <<>>]
    /\ UNCHANGED <<payload, effects>>

\* a failure that keeps the reason of the job's first failed attempt
failWithFirst(r, message) ==
    [moveToFailed(r) EXCEPT
        !.failedReason = IF r.failedReason = "none" THEN message ELSE r.failedReason]

\* the library's moveToFailed(err, token): failedReason is err.message
failWith(r, message) == [moveToFailed(r) EXCEPT !.failedReason = message]

\* a worker process that an error of a job ends
onFailedExit(w) == [alive EXCEPT ![w] = FALSE]

\* the worker's 'failed' and 'error' handlers log and return
onFailed(w) == alive

\* the processor rejects: the worker moves the job to failed under the
\* attempt's token and emits 'failed'
Rejects(e, message) ==
    /\ exec' = exec \ {e}
    /\ job' = [job EXCEPT ![e.j] =
                 IF HoldsLock(e)
                 THEN [failWith(@, message) EXCEPT !.failures = @ + 1]
                 ELSE IF @.state = "none" THEN @ ELSE [@ EXCEPT !.failures = @ + 1]]
    /\ alive' = onFailed(e.w)
    /\ UNCHANGED <<limiter, crashes>>

\* await job.updateProgress(10)
Write10(e) ==
    /\ Progress10(e)
    /\ Logged(e.j, "progress10")
    /\ UNCHANGED <<payload, effects>>

\* Buffer.from(imageBuffer) throws before updateProgress(30) is called
DecodeThrows(e) ==
    /\ e.pc = "progress30"
    /\ decodeThrows(payload[e.j])
    /\ Rejects(e, "decode")
    /\ UNCHANGED pipeVars

\* the buffer is rebuilt, then await job.updateProgress(30)
Write30SkippingIdentify(e) ==
    /\ e.pc = "progress30"
    /\ ~decodeThrows(payload[e.j])
    /\ updateProgress(e, 30, "progress100")
    /\ Logged(e.j, "progress30")
    /\ UNCHANGED <<payload, effects>>

Write30(e) ==
    /\ ~decodeThrows(payload[e.j])
    /\ Progress30(e)
    /\ Logged(e.j, "progress30")
    /\ UNCHANGED <<payload, effects>>

\* the broker answers job.updateProgress with an error: the await rejects
ProgressRejects(e) ==
    /\ \/ e.pc \in {"progress10", "progress100"}
       \/ e.pc = "progress30" /\ ~decodeThrows(payload[e.j])
    /\ Rejects(e, "progress")
    /\ UNCHANGED pipeVars

IdentifyStages == {"identify", "upload", "makePublic", "insert", "fetch"}

Called(e) ==
    effects' = [effects EXCEPT ![e.j] =
                  [@ EXCEPT !.gemini = IF e.pc = "identify" THEN @ + 1 ELSE @]]

\* identifyInsect is called; await identifyWithGemini(base64Image) returns
identifyWithGemini(e) ==
    /\ e.pc = "identify"
    /\ exec' = (exec \ {e}) \cup {[e EXCEPT !.pc = "upload"]}
    /\ Called(e)
    /\ Logged(e.j, "identify")
    /\ UNCHANGED <<job, alive, limiter, crashes, payload>>

\* uploadImageToStorage: await fileRef.save(...) stores the image object
fileRefSave(e) ==
    /\ e.pc = "upload"
    /\ exec' = (exec \ {e}) \cup {[e EXCEPT !.pc = "makePublic"]}
    /\ effects' = [effects EXCEPT ![e.j] = [@ EXCEPT !.images = @ + 1]]
    /\ UNCHANGED <<job, alive, limiter, crashes, payload, log>>

\* uploadImageToStorage: await fileRef.makePublic()
makePublic(e) ==
    /\ e.pc = "makePublic"
    /\ exec' = (exec \ {e}) \cup {[e EXCEPT !.pc = "insert"]}
    /\ UNCHANGED <<job, alive, limiter, crashes, pipeVars>>

\* await db.collection('insects').add(cleanData) adds the document
saveIdentificationToFirestore(e) ==
    /\ e.pc = "insert"
    /\ exec' = (exec \ {e}) \cup {[e EXCEPT !.pc = "fetch"]}
    /\ effects' = [effects EXCEPT ![e.j] = [@ EXCEPT !.docs = @ + 1]]
    /\ UNCHANGED <<job, alive, limiter, crashes, payload, log>>

\* await docRef.get(), and identifyInsect returns the identification
docRefGet(e) ==
    /\ e.pc = "fetch"
    /\ exec' = (exec \ {e}) \cup {[e EXCEPT !.pc = "progress100"]}
    /\ Logged(e.j, "returned")
    /\ UNCHANGED <<job, alive, limiter, crashes, payload, effects>>

\* the message of the error identifyInsect rethrows, by the await that failed
messageOf(pc) ==
    CASE pc = "identify" -> "identify"
      [] pc \in {"upload", "makePublic"} -> "upload"
      [] pc = "insert" -> "save"
      [] pc = "fetch" -> "fetch"

\* an await of identifyInsect rejects: its catch rethrows the error
identifyInsectThrows(e) ==
    /\ e.pc \in IdentifyStages
    /\ Rejects(e, messageOf(e.pc))
    /\ Called(e)
    /\ UNCHANGED <<payload, log>>

\* await job.updateProgress(100)
Write100(e) ==
    /\ Progress100(e)
    /\ Logged(e.j, "progress100")
    /\ UNCHANGED <<payload, effects>>

\* return result
Return(e) ==
    /\ ProcessorReturns(e)
    /\ UNCHANGED pipeVars

\* a step of the unfolded processor
Pipe(A) ==
    /\ A
    /\ UNCHANGED clockVars
    /\ UNCHANGED codecVars
    /\ UNCHANGED apiVars
    /\ UNCHANGED delayVars
    /\ UNCHANGED keepVars

PipelineNext ==
    \/ \E j \in 1..MaxJobs, form \in PayloadForms : Pipe(AddJob(j, form))
    \/ \E w \in Workers, j \in JobIds : Pipe(StartAttempt(w, j))
    \/ \E e \in exec : Pipe(Write10(e))
    \/ \E e \in exec : Pipe(DecodeThrows(e))
    \/ \E e \in exec : Pipe(Write30(e))
    \/ \E e \in exec : Pipe(ProgressRejects(e))
    \/ \E e \in exec : Pipe(identifyWithGemini(e))
    \/ \E e \in exec : Pipe(fileRefSave(e))
    \/ \E e \in exec : Pipe(makePublic(e))
    \/ \E e \in exec : Pipe(saveIdentificationToFirestore(e))
    \/ \E e \in exec : Pipe(docRefGet(e))
    \/ \E e \in exec : Pipe(identifyInsectThrows(e))
    \/ \E e \in exec : Pipe(Write100(e))
    \/ \E e \in exec : Pipe(Return(e))
    \/ \E j \in JobIds : Queue(DelayElapsed(j))
    \/ Queue(LimiterExpire)
    \/ \E w \in Workers : Queue(Crash(w))
    \/ \E w \in Workers : Queue(Start(w))
    \/ \E j \in JobIds : Queue(OrphanLockExpire(j))
    \/ \E w \in Workers, j \in JobIds : Queue(StalledCheck(w, j))

PipelineSpec == Init /\ [][PipelineNext]_vars

\* as PipelineNext, with a worker process left to run the jobs
PipelineFairNext ==
    \/ \E j \in 1..MaxJobs, form \in PayloadForms : Pipe(AddJob(j, form))
    \/ \E w \in Workers, j \in JobIds : Pipe(StartAttempt(w, j))
    \/ \E e \in exec : Pipe(Write10(e))
    \/ \E e \in exec : Pipe(DecodeThrows(e))
    \/ \E e \in exec : Pipe(Write30(e))
    \/ \E e \in exec : Pipe(ProgressRejects(e))
    \/ \E e \in exec : Pipe(identifyWithGemini(e))
    \/ \E e \in exec : Pipe(fileRefSave(e))
    \/ \E e \in exec : Pipe(makePublic(e))
    \/ \E e \in exec : Pipe(saveIdentificationToFirestore(e))
    \/ \E e \in exec : Pipe(docRefGet(e))
    \/ \E e \in exec : Pipe(identifyInsectThrows(e))
    \/ \E e \in exec : Pipe(Write100(e))
    \/ \E e \in exec : Pipe(Return(e))
    \/ \E j \in JobIds : Queue(DelayElapsed(j))
    \/ Queue(LimiterExpire)
    \/ \E w \in Workers : Queue(CrashLeavingOne(w))
    \/ \E w \in Workers : Queue(Start(w))
    \/ \E j \in JobIds : Queue(OrphanLockExpire(j))
    \/ \E w \in Workers, j \in JobIds : Queue(StalledCheck(w, j))

\* an await of the attempt e settles, with a value or an error
Settles(e) ==
    \/ Write10(e) \/ DecodeThrows(e) \/ Write30(e) \/ ProgressRejects(e)
    \/ identifyWithGemini(e) \/ fileRefSave(e) \/ makePublic(e)
    \/ saveIdentificationToFirestore(e) \/ docRefGet(e)
    \/ identifyInsectThrows(e) \/ Write100(e) \/ Return(e)

\* every await settles, timers expire, and a waiting job is claimed
PipelineFairness ==
    /\ WF_vars(Queue(LimiterExpire))
    /\ \A j \in JobIds :
         /\ WF_vars(\E e \in exec : e.j = j /\ Pipe(Settles(e)))
         /\ WF_vars(Queue(DelayElapsed(j)))
         /\ WF_vars(Queue(OrphanLockExpire(j)))
         /\ WF_vars(\E w \in Workers : Queue(StalledCheck(w, j)))
         /\ SF_vars(\E w \in Workers : Pipe(StartAttempt(w, j)))

PipelineFairSpec == Init /\ [][PipelineFairNext]_vars /\ PipelineFairness

\* job j is completed or failed
Terminal(j) == job[j].state \in {"completed", "failed"}

(***************************************************************************)
(* Retention under a clock (KeepSpec).  When a job finishes, the library   *)
(* adds it to the set of completed or of failed jobs and then removes from *)
(* that set the jobs removeOnComplete / removeOnFail does not keep.        *)
(***************************************************************************)
\* the ids in fin of the jobs that are in state st, oldest first
finishedIn(jb, fin, st) == SelectSeq(fin, LAMBDA i : jb[i].state = st)

Members(ids) == {ids[k] : k \in 1..Len(ids)}

\* KeepJobs.age: the jobs of the set that finished maxAge seconds ago or earlier
removeJobsByMaxAge(ag, ids, maxAge) == {i \in Members(ids) : ag[i] >= maxAge}

\* KeepJobs.count: all but the newest maxCount jobs of the set
removeJobsByMaxCount(ids, maxCount) == {ids[k] : k \in 1..(Len(ids) - maxCount)}

\* removeOnComplete {age: 3600, count: 100}: what goes when a job completes
removeOnComplete(jb, fin, ag) ==
    LET done == finishedIn(jb, fin, "completed")
        old  == removeJobsByMaxAge(ag, done, removeOnCompleteAge)
        rest == SelectSeq(done, LAMBDA i : i \notin old)
    IN  old \cup removeJobsByMaxCount(rest, keepCount)

\* a removeOnFail with the age of removeOnComplete
removeOnFailEarly(jb, fin, ag) ==
    removeJobsByMaxAge(ag, finishedIn(jb, fin, "failed"), removeOnCompleteAge)

\* removeOnFail {age: 86400}: what goes when a job fails
removeOnFail(jb, fin, ag) ==
    removeJobsByMaxAge(ag, finishedIn(jb, fin, "failed"), removeOnFailAge)

\* the job of attempt e became jb1[e.j]: if that ends it, it joins the
\* finished jobs and the ones not kept are removed, hash and all
Finish(e, jb1) ==
    LET ends == jb1[e.j].state \in {"completed", "failed"}
        fin1 == IF ends THEN Append(finished, e.j) ELSE finished
        ag1  == [age EXCEPT ![e.j] = 0]
        gone == IF jb1[e.j].state = "completed" THEN removeOnComplete(jb1, fin1, ag1)
                ELSE IF jb1[e.j].state = "failed" THEN removeOnFail(jb1, fin1, ag1)
                ELSE {}
    IN  /\ job' = [i \in JobIds |-> IF i \in gone THEN NoJob ELSE jb1[i]]
        /\ finished' = SelectSeq(fin1, LAMBDA i : i \notin gone)
        /\ age' = [i \in JobIds |-> IF i \in gone THEN 0 ELSE ag1[i]]
        /\ exec' = exec \ {e}
        /\ UNCHANGED <<alive, limiter, crashes>>

\* return result: the job is completed, and removeOnComplete is applied
ReturnsKeeping(e) ==
    /\ e.pc = "return"
    /\ HoldsLock(e)
    /\ Finish(e, [job EXCEPT ![e.j] = moveToCompleted(@)])

\* the processor rejects: the job is delayed, or it is failed and
\* removeOnFail is applied
ThrowsKeeping(e) ==
    /\ e.pc = "identify"
    /\ HoldsLock(e)
    /\ Finish(e, [job EXCEPT ![e.j] = [moveToFailed(@) EXCEPT !.failures = @ + 1]])

\* KeepTick seconds pass
TickAge ==
    /\ \E j \in JobIds : Terminal(j) /\ age[j] < removeOnFailAge
    /\ age' = [j \in JobIds |->
                 IF Terminal(j) /\ age[j] < removeOnFailAge
                 THEN age[j] + KeepTick ELSE age[j]]
    /\ UNCHANGED <<queueVars, finished>>

\* a step of the queue under the retention clock
Keep(A) ==
    /\ A
    /\ UNCHANGED clockVars
    /\ UNCHANGED codecVars
    /\ UNCHANGED apiVars
    /\ UNCHANGED delayVars
    /\ UNCHANGED pipeVars

KeepNext ==
    \/ \E j \in 1..KeepJobs : Api(EnqueueFresh(j))
    \/ \E j \in JobIds : Queue(ClaimJob(ApiWorker, j))
    \/ \E e \in exec : Queue(Progress10(e))
    \/ \E e \in exec : Queue(Progress30(e))
    \/ \E e \in exec : Queue(IdentifyReturns(e))
    \/ \E e \in exec : Queue(Progress100(e))
    \/ \E e \in exec : Keep(ReturnsKeeping(e))
    \/ \E e \in exec : Keep(ThrowsKeeping(e))
    \/ \E j \in JobIds : Queue(DelayElapsed(j))
    \/ Queue(LimiterExpire)
    \/ Keep(TickAge)

KeepSpec == Init /\ [][KeepNext]_vars

(***************************************************************************)
(* Properties.                                                             *)
(***************************************************************************)

\* no attempt of job j was cut short by a stall
NeverStalled(j) == job[j].stalledCounter = 0

\* C1 (retry bound): a job whose attempts all end with the pipeline failing is
\* FAILED after exactly 3 attempts: when it is FAILED its pipeline has failed 3
\* times in 3 started attempts, it is never started a 4th time, and it is
\* terminal as soon as 3 attempts are made.
C1_RetryBound ==
    \A j \in JobIds :
        NeverStalled(j) =>
            /\ job[j].state = "failed" =>
                   job[j].failures = attempts /\ job[j].attemptsStarted = attempts
            /\ job[j].attemptsStarted <= attempts
            /\ job[j].attemptsMade >= attempts => Terminal(j)

C1_Witness ==
    \E j \in JobIds :
        /\ NeverStalled(j)
        /\ job[j].state = "failed"
        /\ job[j].failures = 3
        /\ job[j].attemptsStarted = 3

\* C2 (terminal exclusivity): the status of a COMPLETED job has no failedReason
\* and the status of a FAILED job has no result.
C2_TerminalExclusivity ==
    \A j \in JobIds :
        LET s == getJobStatus(j)
        IN  s.found =>
                /\ s.state = "completed" => s.failedReason = "none"
                /\ s.state = "failed" => s.result = "none"

\* C3 (at most one active attempt): at every instant at most one processor
\* invocation, over all workers, runs for a job.
C3_OneActiveAttempt ==
    \A j \in JobIds : Cardinality({e \in exec : e.j = j}) <= 1

ActiveOn(w) ==
    {j \in JobIds : job[j].state = "active"
                      /\ \E e \in execOf(w) : e.j = j /\ e.tok = job[j].lock}

\* C6 (concurrency ceiling): a worker never runs more processor invocations,
\* nor holds more ACTIVE jobs, than its concurrency, however many jobs wait.
C6_ConcurrencyCeiling ==
    \A w \in Workers :
        /\ Cardinality(execOf(w)) <= concurrency
        /\ Cardinality(ActiveOn(w)) <= concurrency

C6_Witness ==
    \E w \in Workers :
        /\ Cardinality(ActiveOn(w)) = concurrency
        /\ \E j \in JobIds : job[j].state = "waiting"
        /\ ~RateLimited

\* C7 as claimed: at most limiterMax claims in any rolling window of
\* limiter.duration.
C7_RollingWindow == RollingClaims <= limiterMax

\* C7 (rate limit), amended: at most limiterMax claims are granted, over all
\* workers, in one limiter window, which opens at the first claim after the
\* previous one expired and lasts limiter.duration; a rolling window of that
\* length holds at most 2 * limiterMax - 1 claims.
C7_FixedWindow ==
    /\ limiter <= limiterMax
    /\ RollingClaims <= 2 * limiterMax - 1
    /\ limiter > 0 => recent[0] <= limiter

C7_Witness ==
    /\ RollingClaims = 2 * limiterMax - 1
    /\ limiter = limiterMax
    /\ \E j, k \in JobIds :
          /\ job[j].state = "active" /\ job[k].state = "active"
          /\ \E e, f \in exec : e.j = j /\ f.j = k /\ e.w # f.w

\* C8 (non-terminal emptiness): the status of a WAITING, ACTIVE or DELAYED job
\* has neither result nor failedReason, and the status of a terminal job has
\* exactly one of them.
C8_PopulatedOnlyWhenTerminal ==
    \A j \in JobIds :
        LET s == getJobStatus(j)
        IN  s.found =>
                /\ s.state \in {"waiting", "active", "delayed"} =>
                       s.result = "none" /\ s.failedReason = "none"
                /\ s.state \in {"completed", "failed"} =>
                       (s.result = "none") # (s.failedReason = "none")

\* C9 (retry then success): a job whose pipeline failed k times, k in {1, 2},
\* and then succeeded is COMPLETED with k + 1 attempts made and started; a job
\* whose pipeline failed fewer than 3 times is not FAILED.
C9_RetryThenSuccess ==
    \A j \in JobIds :
        NeverStalled(j) =>
            /\ job[j].state = "completed" =>
                   /\ job[j].attemptsMade = job[j].failures + 1
                   /\ job[j].attemptsStarted = job[j].failures + 1
                   /\ job[j].failures <= 2
                   /\ job[j].returnvalue = "result"
            /\ job[j].failures < 3 => job[j].state # "failed"

C9_Witness ==
    \E j \in JobIds :
        /\ NeverStalled(j)
        /\ job[j].state = "completed"
        /\ job[j].failures = 2
        /\ job[j].attemptsMade = 3

\* the worker process that ran job j's attempt died: the job is ACTIVE and no
\* processor invocation runs for it
Orphaned(j) == job[j].state = "active" /\ ~\E e \in exec : e.j = j

\* job j is ACTIVE under a claim whose processor invocation runs
Reclaimed(j) == job[j].state = "active" /\ HolderRuns(j)

StalledOut(j) == job[j].state = "failed" /\ job[j].failedReason = "stalled"

C11_EventualTermination ==
    \A j \in JobIds : (job[j].state # "none") ~> Terminal(j)

\* the request answered last was a status read of job j
StatusAnswered(j) == reply.op = "status" /\ reply.id = j

\* C12 (unique job identity): no two calls of addInsectIdentificationJob that
\* returned have returned the same jobId.
C12_UniqueJobIdentity ==
    \A a, b \in 1..Len(issued) : a # b => issued[a] # issued[b]

\* C13 (enqueue failure): a call of addInsectIdentificationJob made while the
\* broker was unreachable returns no jobId, and leaves no job under the id.
C13_EnqueueFailure ==
    (reply.op = "enqueue" /\ reply.down) =>
        /\ reply.code # 202
        /\ job[reply.id].state = "none"

\* C14 (durable enqueue): when addInsectIdentificationJob returns a jobId, the
\* status of that job is found, WAITING or ACTIVE, with progress below 100.
C14_DurableEnqueue ==
    [][(call.st = "pending" /\ call'.st = "idle") =>
          LET s == getJobStatus(reply.id)'
          IN  /\ s.found
              /\ s.state \in {"waiting", "active"}
              /\ s.progress < 100]_vars

\* C15 (status of a missing job): a status read of an id under which the queue
\* holds no job, never issued or removed by retention, is answered 404 with
\* null, the same in both cases, and never with an error.
C15_MissingJobNotFound ==
    [][\A j \in JobIds :
          (poll.st = "idle" /\ job[j].state = "none"
              /\ (poll'.st # "idle" \/ reply' # reply)
              /\ (poll'.st # "idle" => poll'.id = j)
              /\ (poll'.st = "idle" => StatusAnswered(j)'))
          => /\ poll'.st = "idle"
             /\ reply'.code = 404
             /\ reply'.body = [found |-> FALSE]]_vars

C15_Witness ==
    \E j \in JobIds :
        /\ StatusAnswered(j)
        /\ reply.code = 404
        /\ \E a \in 1..Len(issued) : issued[a] = j
        /\ job[j].state = "none"

\* C16 (progress discipline): while one attempt holds a job its stored
\* progress does not decrease, and the claim that starts an attempt, a retry
\* too, leaves the stored progress at 0.
C16_ProgressDiscipline ==
    [][\A j \in JobIds :
          /\ (job[j].state = "active" /\ job'[j].state = "active"
                 /\ job'[j].lock = job[j].lock)
                => job'[j].progress >= job[j].progress
          /\ (job[j].state = "waiting" /\ job'[j].state = "active")
                => job'[j].progress = 0]_vars

\* the processor invocation e returns its result in this step
Returns(e) == e.pc = "return" /\ e \notin exec' /\ alive'[e.w]

\* C17 (successful completion): when a job's pipeline has succeeded and its
\* processor returns the result, the job is COMPLETED with progress 100,
\* finishedOn set and the result as its returnvalue.
C17_SuccessfulCompletion ==
    [][\A e \in exec :
          Returns(e) =>
              /\ job'[e.j].state = "completed"
              /\ job'[e.j].progress = 100
              /\ job'[e.j].finishedOn
              /\ job'[e.j].returnvalue = "result"]_vars

\* the fields of a job that its end fixes
Outcome(r) ==
    <<r.state, r.returnvalue, r.failedReason, r.attemptsMade, r.attemptsStarted,
      r.finishedOn>>

\* C18 (terminal states are absorbing): no step changes the state, result,
\* failedReason or attempts of a COMPLETED or FAILED job, except that
\* retention removes the job.
C18_TerminalAbsorbing ==
    [][\A j \in JobIds :
          Terminal(j) => (Outcome(job'[j]) = Outcome(job[j]) \/ job'[j] = NoJob)]_vars

C18_Witness ==
    \E j \in JobIds :
        /\ job[j].state = "completed"
        /\ \E e \in exec : e.j = j /\ e.pc = "return"

\* C19 (status read is a pure read): no step of getJobStatus changes a job,
\* the processor invocations or the limiter, and a step of
\* addInsectIdentificationJob changes no job that is in the queue.
C19_PureRead ==
    [][/\ (poll' # poll \/ (reply' # reply /\ reply'.op = "status"))
            => UNCHANGED queueVars
       /\ call' # call
            => \A j \in JobIds : job[j].state # "none" => job'[j] = job[j]]_vars

C19_Witness ==
    \E j \in JobIds :
        /\ StatusAnswered(j)
        /\ reply.code = 200
        /\ reply.body.state = "delayed"
        /\ job[j].state = "delayed"
        /\ job[j].attemptsMade = 1
        /\ job[j].attemptsStarted = 1

\* C20 (backoff growth): a job whose n-th attempt failed, n in {1, 2}, stays
\* DELAYED, and so is not claimed, until at least 2000 * 2^(n-1) ms have passed
\* since that failure: 2000 ms after the first, 4000 ms after the second.
C20_BackoffGrowth ==
    [][\A j \in JobIds :
          LET n == job[j].attemptsMade
          IN  /\ (job[j].state = "delayed" /\ job'[j].state # "delayed")
                    => (n \in {1, 2} /\ waited[j] >= 2000 * 2^(n - 1))
              /\ (n >= 1 /\ job[j].state # "active" /\ job'[j].state = "active")
                    => (job[j].state = "waiting" /\ waited[j] >= 2000 * 2^(n - 1))]_vars

C20_Witness ==
    \E j \in JobIds :
        /\ job[j].state = "active"
        /\ job[j].attemptsMade = 2
        /\ job[j].attemptsStarted = 3
        /\ waited[j] = 4000

\* C22 (decode rejection): an imageBuffer that is neither a byte sequence nor
\* the form {type: 'Buffer', data: [bytes]} makes the decode fail, and the
\* buffer is not handed to identifyInsect.
C22_DecodeRejection ==
    (cWire.form \in ForeignForms /\ cpc \in {"identify", "failed"}) => cpc = "failed"

\* the attempt e is over after this step, and its worker process runs on
AttemptEnds(e) ==
    /\ \A f \in exec' : ~(f.w = e.w /\ f.j = e.j /\ f.tok = e.tok)
    /\ alive'[e.w]

\* C21 (progress updates are best-effort): an attempt whose identifyInsect
\* call has returned ends with its job COMPLETED, whether or not its progress
\* updates could be written.
C21_ProgressBestEffort ==
    [][\A e \in exec :
          (e.pc \in {"progress100", "return"} /\ HoldsLock(e) /\ AttemptEnds(e))
              => job'[e.j].state = "completed"]_vars

\* an await of the attempt e rejects in this step: the attempt is over, and
\* neither by returning its result nor by the death of its worker process
ErrorRaised(e) ==
    /\ e.pc # "return"
    /\ \A f \in exec' : ~(f.w = e.w /\ f.j = e.j /\ f.tok = e.tok)
    /\ crashes' = crashes

\* C23 (the worker never crashes on pipeline errors): an error of any stage
\* of an attempt (decode, progress update, classification, upload, insert,
\* fetch) moves the job from ACTIVE to DELAYED or FAILED, ends no worker
\* process and leaves the attempt's worker with a free slot.
C23_ErrorsContained ==
    [][\A e \in exec :
          ErrorRaised(e) =>
              /\ job[e.j].state = "active"
              /\ job'[e.j].state \in {"delayed", "waiting", "failed"}
              /\ alive' = alive
              /\ Cardinality({f \in exec' : f.w = e.w}) < concurrency]_vars

C23_Witness ==
    \E j \in JobIds :
        /\ job[j].state = "failed"
        /\ job[j].failedReason = "save"
        /\ job[j].failures = attempts
        /\ crashes = 0
        /\ \A w \in Workers : alive[w]

\* the messages of the errors an attempt can raise at the await it stands at
ErrorsAt(pc) ==
    IF pc \in IdentifyStages THEN {messageOf(pc)}
    ELSE IF pc = "progress30" THEN {"progress", "decode"}
    ELSE {"progress"}

\* job j goes from ACTIVE to FAILED in this step
EntersFailed(j) == job[j].state = "active" /\ job'[j].state = "failed"

Undecodable(j) == payload[j].form \in {"plain", "absent"}

\* C26 (undecodable payload path): a job whose payload cannot be rebuilt into
\* bytes is retried and ends FAILED, after 3 attempts when none of them was
\* cut short by a stall, and for it identifyWithGemini is never called, no
\* image is stored and no document is inserted.
C26_UndecodablePayload ==
    \A j \in JobIds :
        /\ [](Undecodable(j) =>
                 /\ effects[j] = [gemini |-> 0, images |-> 0, docs |-> 0]
                 /\ job[j].state # "completed"
                 /\ (job[j].state = "failed" /\ NeverStalled(j)) =>
                        (job[j].attemptsMade = attempts /\ job[j].failures = attempts))
        /\ Undecodable(j) ~> job[j].state = "failed"

C26_Witness ==
    \E j \in JobIds :
        /\ payload[j].form = "plain"
        /\ job[j].state = "failed"
        /\ job[j].failedReason = "decode"
        /\ job[j].failures = attempts

\* C27 (pipeline step order): the attempt that completes a job has written
\* progress 10, then 30, then called identifyInsect, which returned, and then
\* written progress 100, in that order and nothing else.
C27_StepOrder ==
    \A j \in JobIds :
        job[j].state = "completed" =>
            log[j] = <<"progress10", "progress30", "identify", "returned", "progress100">>

C27_Witness ==
    \E j \in JobIds :
        /\ job[j].state = "completed"
        /\ job[j].attemptsMade = attempts
        /\ job[j].progress = 100

\* C28 (status snapshot consistency): a projection getJobStatus returns never
\* shows a state other than waiting, active, delayed, completed or failed,
\* never completed without the result or below progress 100, and never
\* failed without a failedReason.
C28_SnapshotConsistency ==
    (reply.op = "status" /\ reply.code = 200) =>
        /\ reply.body.state \in {"waiting", "active", "delayed", "completed", "failed"}
        /\ reply.body.state = "completed" =>
               (reply.body.result # "none" /\ reply.body.progress = 100)
        /\ reply.body.state = "failed" => reply.body.failedReason # "none"

\* C29 (at most one persisted record per job): over all attempts of a job at
\* most one document is inserted and at most one image object is stored for
\* it, and a COMPLETED job has exactly one of each.
C29_OneRecordPerJob ==
    \A j \in JobIds :
        /\ effects[j].docs <= 1
        /\ effects[j].images <= 1
        /\ job[j].state = "completed" =>
               (effects[j].docs = 1 /\ effects[j].images = 1)

\* C30 (no residue on failure): a FAILED job has left no document in the
\* collection and no image object in the bucket.
C30_NoResidue ==
    \A j \in JobIds :
        job[j].state = "failed" => (effects[j].docs = 0 /\ effects[j].images = 0)

\* the position of job i among the finished jobs ids, 0 when it is not there
Position(ids, i) ==
    IF i \in Members(ids) THEN CHOOSE k \in 1..Len(ids) : ids[k] = i ELSE 0

\* retention removes job j in this step
Removed(j) == job[j].state # "none" /\ job'[j].state = "none"

\* C24 (retention): only completed and failed jobs are removed; a completed
\* job goes only when it finished 3600 s ago or earlier or when the kept
\* completed jobs, all of them newer, are at the count; a failed job goes only
\* when it finished 86400 s ago or earlier; no more completed jobs than the
\* count are ever kept.
C24_Retention ==
    /\ [][\A j \in JobIds :
            Removed(j) =>
                /\ Terminal(j)
                /\ job[j].state = "completed" =>
                       \/ age[j] >= removeOnCompleteAge
                       \/ /\ Len(finishedIn(job', finished', "completed")) = keepCount
                          /\ \A i \in JobIds :
                                job'[i].state = "completed" =>
                                    Position(finished', i) > 0
                                    /\ (job[i].state = "completed" =>
                                           Position(finished, i) > Position(finished, j))
                /\ job[j].state = "failed" => age[j] >= removeOnFailAge]_vars
    /\ [](Len(finishedIn(job, finished, "completed")) <= keepCount)

C24_Witness ==
    \E i \in JobIds :
        /\ Position(issued, i) > 0 /\ job[i].state = "none"
        /\ Len(finishedIn(job, finished, "completed")) = keepCount
        /\ \A j \in JobIds : age[j] = 0

\* C31 (the returned id denotes the caller's own envelope): a call of
\* addInsectIdentificationJob that returns creates one new job, under the id
\* it returns, and leaves every other job as it was.
C31_OwnEnvelope ==
    [][(call.st = "pending" /\ call'.st = "idle") =>
          /\ job[reply'.id].state = "none"
          /\ job'[reply'.id] = NewJob
          /\ \A j \in JobIds : j # reply'.id => job'[j] = job[j]]_vars

\* C32 (timestamp/state coherence): in a status projection finishedAt is set
\* exactly when the state is completed or failed, and processedAt is set
\* exactly when the job was claimed, which a job that is active, delayed,
\* completed or failed was and a job still waiting for its first attempt
\* was not.
C32_TimestampCoherence ==
    (reply.op = "status" /\ reply.code = 200) =>
        /\ reply.body.finishedAt <=> reply.body.state \in {"completed", "failed"}
        /\ reply.body.state \in {"active", "delayed", "completed", "failed"}
              => reply.body.processedAt
        /\ (reply.body.state = "waiting" /\ job[reply.id].attemptsStarted = 0)
              => ~reply.body.processedAt

\* C33 (progress 100 means done): a job that is waiting, delayed or failed
\* never has the stored progress 100.
C33_Progress100MeansDone ==
    \A j \in JobIds :
        job[j].state \in {"waiting", "delayed", "failed"} => job[j].progress # 100

============================================================================
